---- MODULE Spec2Model ----
(***************************************************************************)
(* Buffer pool manager (storage/buffer_pool_manager.cpp), record file     *)
(* handle (record/rm_file_handle.cpp) and record scan (record/rm_scan.cpp) *)
(* of rucbase, as a state machine.                                         *)
(*                                                                         *)
(* Spec     : clients call the public operations of the buffer pool.       *)
(* SpecRm   : one client calls the record operations of one record file,   *)
(*            which run on top of the same buffer pool operators.          *)
(* SpecScan : the same, followed by one RmScan over the file.              *)
(***************************************************************************)
EXTENDS Integers, Sequences, FiniteSets, TLC

\* ------------------------------------------------------------------ bounds
PoolSize == 2
MaxPageNo == 2
MaxPin == 1
NumRecordsPerPage == 2

\* ------------------------------------------------------- program constants
INVALID_PAGE_ID == -1
RM_NO_PAGE == -1
RM_FIRST_RECORD_PAGE == 1

\* A null Page*, and the owner of an unlocked latch_.
NoFrame == -1
NoThread == "none"

Frames == 0 .. (PoolSize - 1)
\* One file holds the pages (fd_); a second file has no page in the pool.
fd_ == 0
FDs == {fd_}
OtherFDs == {fd_ + 1}
Threads == {"t1", "t2"}
Slots == 0 .. (NumRecordsPerPage - 1)
Values == {1}
PageNos == 0 .. MaxPageNo
PageIds == [fd : FDs, page_no : PageNos]

PageId(fd, page_no) == [fd |-> fd, page_no |-> page_no]

\* A page buffer, seen through the record layer's layout: page header,
\* occupancy bitmap, slots.  reset_memory() gives the all-zero buffer.
ZeroData ==
    [num_records |-> 0, next_free_page_no |-> 0,
     bitmap |-> [s \in Slots |-> FALSE], slots |-> [s \in Slots |-> 0]]

VARIABLES
    pages_,        \* frame -> [id, pin_count_, is_dirty_, data_]
    page_table_,   \* PageId -> frame (a function on the resident PageIds)
    free_list_,    \* sequence of frame ids
    replacer_,     \* the replacer's list of evictable frames
    disk,          \* PageId -> page image on disk
    next_page_no,  \* fd -> the page number allocate_page hands out next
    latch_,        \* [owner, waiter]: the thread holding / blocked on latch_
    held,          \* PageId -> fetches and new_pages not yet unpinned
    file_hdr_,     \* [num_pages, first_free_page_no] of the record file
    scan_,         \* the RmScan over the record file: [open, rid_, seen]
    last           \* the last call: operation, arguments, result

vars == <<pages_, page_table_, free_list_, replacer_, disk, next_page_no,
          latch_, held, file_hdr_, scan_, last>>

\* The buffer pool's own state, as one value the operations transform;
\* deallocated collects the page numbers a call passes to deallocate_page.
Bp == [pages |-> pages_, page_table |-> page_table_, free_list |-> free_list_,
       replacer |-> replacer_, disk |-> disk, next_page_no |-> next_page_no,
       deallocated |-> {}]

\* ------------------------------------------------------------ collaborators
ReplacerVictim(r) ==
    IF r = <<>> THEN [ok |-> FALSE, frame |-> NoFrame, replacer |-> r]
    ELSE [ok |-> TRUE, frame |-> Head(r), replacer |-> Tail(r)]

ReplacerPin(r, f) == SelectSeq(r, LAMBDA x : x # f)

DiskWritePage(bp, pid, data) ==
    IF pid \in DOMAIN bp.disk
    THEN [bp EXCEPT !.disk[pid] = data]
    ELSE bp

DiskReadPage(bp, pid) ==
    IF pid \in DOMAIN bp.disk THEN bp.disk[pid] ELSE ZeroData

\* ------------------------------------------------------------- page table
Erase(pt, pid) == [q \in (DOMAIN pt) \ {pid} |-> pt[q]]

Insert(pt, pid, f) ==
    [q \in (DOMAIN pt) \cup {pid} |-> IF q = pid THEN f ELSE pt[q]]

\* What a call returns: the pool afterwards, the result, the frame handed
\* out, where that frame came from, and how the call ended ("return", or
\* "blocked" / "throw" where it locks latch_ a second time).
Out(bp, ret, frame, from, end) ==
    [bp |-> bp, ret |-> ret, frame |-> frame, from |-> from, end |-> end]

find_victim_page(bp) ==
    IF bp.free_list # <<>>
    THEN [ok |-> TRUE, frame |-> Head(bp.free_list), from |-> "free_list",
          bp |-> [bp EXCEPT !.free_list = Tail(bp.free_list)]]
    ELSE LET v == ReplacerVictim(bp.replacer)
         IN  [ok |-> v.ok, frame |-> v.frame, from |-> "replacer",
              bp |-> [bp EXCEPT !.replacer = v.replacer]]

\* flush_page once latch_ is taken.
flush_page_locked(bp, pid) ==
    IF pid \in DOMAIN bp.page_table
    THEN LET f == bp.page_table[pid]
             w == DiskWritePage(bp, pid, bp.pages[f].data_)
         IN  [bp |-> [w EXCEPT !.pages[f].is_dirty_ = FALSE], ret |-> "true"]
    ELSE [bp |-> bp, ret |-> "false"]

flush_page(bp, pid) ==
    LET r == flush_page_locked(bp, pid)
    IN  {Out(r.bp, r.ret, NoFrame, "none", "return")}

\* flush_page called by an operation that already holds latch_: locking a
\* std::mutex its owner holds is undefined.  The builds give three outcomes:
\* the thread blocks for ever, lock() throws std::system_error, or (locks
\* compiled to no-ops) the call goes through.
FlushWhileLatched(bp, pid) ==
    { [end |-> "blocked", bp |-> bp],
      [end |-> "throw", bp |-> bp],
      [end |-> "return", bp |-> flush_page_locked(bp, pid).bp] }

\* fetch_page after the victim's write-back: table, identity, disk read.
fetch_page_install(bp, pid, f) ==
    LET old == bp.pages[f].id
        pt  == Insert(Erase(bp.page_table, old), pid, f)
    IN  [bp EXCEPT !.page_table = pt,
                   !.pages[f].id = pid,
                   !.pages[f].data_ = DiskReadPage(bp, pid),
                   !.pages[f].is_dirty_ = FALSE,
                   !.replacer = ReplacerPin(bp.replacer, f)]

fetch_page(bp, pid) ==
    IF pid \in DOMAIN bp.page_table
    THEN LET f == bp.page_table[pid]
         IN  {Out([bp EXCEPT !.pages[f].pin_count_ = @ + 1],
                  "frame", f, "page_table", "return")}
    ELSE LET v == find_victim_page(bp)
         IN  IF ~v.ok
             THEN {Out(v.bp, "null", NoFrame, "none", "return")}
             ELSE IF v.bp.pages[v.frame].is_dirty_
                  THEN { IF w.end = "return"
                         THEN Out(fetch_page_install(
                                    [w.bp EXCEPT !.pages[v.frame].is_dirty_ = FALSE],
                                    pid, v.frame),
                                  "frame", v.frame, v.from, "return")
                         ELSE Out(w.bp, w.end, NoFrame, v.from, w.end)
                         : w \in FlushWhileLatched(v.bp, v.bp.pages[v.frame].id) }
                  ELSE {Out(fetch_page_install(v.bp, pid, v.frame),
                            "frame", v.frame, v.from, "return")}

unpin_page(bp, pid, is_dirty) ==
    IF pid \notin DOMAIN bp.page_table
    THEN {Out(bp, "true", NoFrame, "none", "return")}
    ELSE LET f == bp.page_table[pid]
         IN  IF bp.pages[f].pin_count_ > 0
             THEN {Out([bp EXCEPT !.pages[f].pin_count_ = @ - 1,
                                  !.pages[f].is_dirty_ = @ \/ is_dirty],
                       "true", f, "page_table", "return")}
             ELSE LET w == IF is_dirty
                           THEN DiskWritePage(bp, pid, bp.pages[f].data_)
                           ELSE bp
                  IN  {Out([w EXCEPT !.page_table = Erase(w.page_table, pid),
                                     !.free_list = Append(w.free_list, f)],
                           "true", f, "page_table", "return")}

\* new_page once it has a frame: identity, zeroed buffer, page table.
new_page_install(bp, pid, f) ==
    [bp EXCEPT !.pages[f].id = pid,
               !.pages[f].data_ = ZeroData,
               !.page_table = Insert(bp.page_table, pid, f)]

new_page(bp, fd) ==
    LET pid == PageId(fd, bp.next_page_no[fd])
        b0  == [bp EXCEPT !.next_page_no[fd] = @ + 1]
    IN  IF pid.page_no = INVALID_PAGE_ID
        THEN {Out(b0, "null", NoFrame, "none", "return")}
        ELSE IF b0.free_list # <<>>
        THEN LET f    == Head(b0.free_list)
                 b1   == [b0 EXCEPT !.free_list = Tail(b0.free_list)]
                 hits == {q \in DOMAIN b1.page_table : b1.page_table[q] = f}
             IN  IF hits = {}
                 THEN {Out(new_page_install(b1, pid, f),
                           "frame", f, "free_list", "return")}
                 ELSE {Out(new_page_install(
                             [b1 EXCEPT !.page_table = Erase(b1.page_table, q)],
                             pid, f),
                           "frame", f, "free_list", "return") : q \in hits}
        ELSE LET v == ReplacerVictim(b0.replacer)
                 b1 == [b0 EXCEPT !.replacer = v.replacer]
             IN  IF ~v.ok
                 THEN {Out(b1, "null", NoFrame, "none", "return")}
                 ELSE IF b1.pages[v.frame].is_dirty_
                      THEN { IF w.end = "return"
                             THEN Out(new_page_install(
                                        [w.bp EXCEPT !.pages[v.frame].is_dirty_ = FALSE],
                                        pid, v.frame),
                                      "frame", v.frame, "replacer", "return")
                             ELSE Out(w.bp, w.end, NoFrame, "replacer", w.end)
                             : w \in FlushWhileLatched(b1, b1.pages[v.frame].id) }
                      ELSE {Out(new_page_install(b1, pid, v.frame),
                                "frame", v.frame, "replacer", "return")}

\* delete_page without its pin count check.
delete_page_unchecked(bp, pid) ==
    IF pid \notin DOMAIN bp.page_table
    THEN {Out(bp, "true", NoFrame, "none", "return")}
    ELSE LET f == bp.page_table[pid]
         IN  {Out([bp EXCEPT !.page_table = Erase(bp.page_table, pid),
                              !.pages[f].data_ = ZeroData,
                              !.free_list = Append(bp.free_list, f),
                              !.deallocated = @ \cup {pid.page_no}],
                   "true", f, "page_table", "return")}

delete_page(bp, pid) ==
    IF pid \notin DOMAIN bp.page_table
    THEN {Out(bp, "true", NoFrame, "none", "return")}
    ELSE LET f == bp.page_table[pid]
         IN  IF bp.pages[f].pin_count_ > 0
             THEN {Out(bp, "false", f, "page_table", "return")}
             ELSE {Out([bp EXCEPT !.page_table = Erase(bp.page_table, pid),
                                  !.pages[f].data_ = ZeroData,
                                  !.free_list = Append(bp.free_list, f),
                                  !.deallocated = @ \cup {pid.page_no}],
                       "true", f, "page_table", "return")}

\* The loop of flush_all_pages over frames i, i+1, ..., pool_size_ - 1.
RECURSIVE FlushFrom(_, _, _)
FlushFrom(bp, fd, i) ==
    IF i >= PoolSize THEN bp
    ELSE LET id == bp.pages[i].id
         IN  IF id.fd = fd /\ id.page_no # INVALID_PAGE_ID
             THEN FlushFrom([DiskWritePage(bp, id, bp.pages[i].data_)
                               EXCEPT !.pages[i].is_dirty_ = FALSE], fd, i + 1)
             ELSE FlushFrom(bp, fd, i + 1)

flush_all_pages(bp, fd) ==
    {Out(FlushFrom(bp, fd, 0), "void", NoFrame, "none", "return")}

\* ------------------------------------------------------ buffer pool: state
\* No RmScan has been constructed; seen lists the Rids a scan has stood on.
NoScan == [open |-> FALSE, rid_ |-> [page_no |-> RM_NO_PAGE, slot_no |-> -1],
           seen |-> <<>>]

FreshPage(fd) ==
    [id |-> PageId(fd, INVALID_PAGE_ID), pin_count_ |-> 0,
     is_dirty_ |-> FALSE, data_ |-> ZeroData]

NoPage == FreshPage(0)

EmptyTable == [q \in {} |-> NoFrame]

RECURSIVE Iota(_)
Iota(n) == IF n = 0 THEN <<>> ELSE Append(Iota(n - 1), n - 1)

LatchFree == [owner |-> NoThread, waiter |-> NoThread]

\* The state after the BufferPoolManager constructor: every frame free, in
\* frame order; the fd of a never-used frame's id is not initialized.  The
\* file's pages below first_new exist on disk.
InitPool(first_new) ==
    /\ pages_ \in [Frames -> {FreshPage(fd) : fd \in FDs \cup OtherFDs}]
    /\ page_table_ = EmptyTable
    /\ free_list_ = Iota(PoolSize)
    /\ replacer_ = <<>>
    /\ disk = [p \in PageIds |-> ZeroData]
    /\ next_page_no = [fd \in FDs |-> first_new]
    /\ latch_ = LatchFree
    /\ held = [p \in PageIds |-> 0]
    /\ scan_ = NoScan

\* Spec starts with pages 0 and 1 of the file on disk.
Init ==
    /\ InitPool(RM_FIRST_RECORD_PAGE + 1)
    /\ file_hdr_ = [num_pages |-> RM_FIRST_RECORD_PAGE, first_free_page_no |-> RM_NO_PAGE]
    /\ last = [op |-> "init", pid |-> PageId(0, INVALID_PAGE_ID), flag |-> FALSE,
               ret |-> "void", frame |-> NoFrame, from |-> "none",
               deallocated |-> {}, old |-> NoPage]

\* The pool variables take the values the call left.
SetPool(bp) ==
    /\ pages_' = bp.pages
    /\ page_table_' = bp.page_table
    /\ free_list_' = bp.free_list
    /\ replacer_' = bp.replacer
    /\ disk' = bp.disk
    /\ next_page_no' = bp.next_page_no

\* A call that ended as o: lock_guard releases latch_ when the call returns
\* or throws; a call blocked on its own latch_ keeps it, whichever thread
\* made the call.
Ends(o) ==
    IF o.end = "blocked"
    THEN \E t \in Threads : latch_' = [owner |-> t, waiter |-> t]
    ELSE latch_' = LatchFree

Called(op, pid, flag, o) ==
    last' = [op |-> op, pid |-> pid, flag |-> flag, ret |-> o.ret,
             frame |-> o.frame, from |-> o.from,
             deallocated |-> o.bp.deallocated,
             old |-> IF o.frame = NoFrame THEN NoPage ELSE pages_[o.frame]]

OnDisk(pid) == pid.page_no < next_page_no[pid.fd]

\* ---------------------------------------------------- buffer pool: actions
\* Each action is one call of a public operation, atomic under latch_; no
\* call starts while a blocked call holds latch_.
FetchPage(pid) ==
    /\ latch_.owner = NoThread
    /\ OnDisk(pid)
    /\ pid \in DOMAIN page_table_ => pages_[page_table_[pid]].pin_count_ < MaxPin
    /\ \E o \in fetch_page(Bp, pid) :
          SetPool(o.bp) /\ Ends(o) /\ Called("fetch_page", pid, FALSE, o)
    /\ UNCHANGED <<file_hdr_, scan_>>

NewPage(fd) ==
    /\ latch_.owner = NoThread
    /\ next_page_no[fd] <= MaxPageNo
    /\ \E o \in new_page(Bp, fd) :
          /\ SetPool(o.bp) /\ Ends(o)
          /\ Called("new_page", PageId(fd, next_page_no[fd]), FALSE, o)
    /\ UNCHANGED <<file_hdr_, scan_>>

UnpinPage(pid, is_dirty) ==
    /\ latch_.owner = NoThread
    /\ OnDisk(pid)
    /\ \E o \in unpin_page(Bp, pid, is_dirty) :
          SetPool(o.bp) /\ Ends(o) /\ Called("unpin_page", pid, is_dirty, o)
    /\ UNCHANGED <<file_hdr_, scan_>>

FlushPage(pid) ==
    /\ latch_.owner = NoThread
    /\ OnDisk(pid)
    /\ \E o \in flush_page(Bp, pid) :
          SetPool(o.bp) /\ Ends(o) /\ Called("flush_page", pid, FALSE, o)
    /\ UNCHANGED <<file_hdr_, scan_>>

DeletePage(pid) ==
    /\ latch_.owner = NoThread
    /\ OnDisk(pid)
    /\ \E o \in delete_page(Bp, pid) :
          SetPool(o.bp) /\ Ends(o) /\ Called("delete_page", pid, FALSE, o)
    /\ UNCHANGED <<file_hdr_, scan_>>

FlushAllPages(fd) ==
    /\ latch_.owner = NoThread
    /\ \E o \in flush_all_pages(Bp, fd) :
          /\ SetPool(o.bp) /\ Ends(o)
          /\ Called("flush_all_pages", PageId(fd, INVALID_PAGE_ID), FALSE, o)
    /\ UNCHANGED <<file_hdr_, scan_>>

\* The callers' side of the last call: a successful fetch_page or new_page
\* gives its caller the page, unpin_page gives one back.
HeldAfter ==
    IF last'.op \in {"fetch_page", "new_page"} /\ last'.ret = "frame"
    THEN [held EXCEPT ![last'.pid] = @ + 1]
    ELSE IF last'.op = "unpin_page"
    THEN [held EXCEPT ![last'.pid] = IF @ > 0 THEN @ - 1 ELSE 0]
    ELSE held

\* A caller that holds a resident page changes its buffer (the record layer
\* does so with memcpy into a slot) before it unpins.
WriteBuffer(pid, v) ==
    /\ latch_.owner = NoThread
    /\ held[pid] > 0
    /\ pid \in DOMAIN page_table_
    /\ pages_[page_table_[pid]].data_.slots[0] # v
    /\ pages_' = [pages_ EXCEPT ![page_table_[pid]].data_.slots[0] = v]
    /\ last' = [op |-> "write", pid |-> pid, flag |-> FALSE, ret |-> "void",
                frame |-> page_table_[pid], from |-> "page_table",
                deallocated |-> {}, old |-> pages_[page_table_[pid]]]
    /\ UNCHANGED <<page_table_, free_list_, replacer_, disk, next_page_no,
                   latch_, held, file_hdr_, scan_>>

\* Spec: any clients, any calls.
Next ==
    \/ \E pid \in PageIds : FetchPage(pid) /\ UNCHANGED held
    \/ \E fd \in FDs : NewPage(fd) /\ UNCHANGED held
    \/ \E pid \in PageIds, d \in BOOLEAN : UnpinPage(pid, d) /\ UNCHANGED held
    \/ \E pid \in PageIds : FlushPage(pid) /\ UNCHANGED held
    \/ \E pid \in PageIds : DeletePage(pid) /\ UNCHANGED held
    \/ \E fd \in FDs \cup OtherFDs : FlushAllPages(fd) /\ UNCHANGED held

Spec == Init /\ [][Next]_vars

\* SpecHeld: the same calls, counting for each page the callers that hold it.
NextHeld ==
    \/ \E pid \in PageIds : held[pid] <= MaxPin /\ FetchPage(pid) /\ held' = HeldAfter
    \/ \E fd \in FDs : NewPage(fd) /\ held' = HeldAfter
    \/ \E pid \in PageIds, d \in BOOLEAN : UnpinPage(pid, d) /\ held' = HeldAfter
    \/ \E pid \in PageIds : FlushPage(pid) /\ held' = HeldAfter
    \/ \E pid \in PageIds : DeletePage(pid) /\ held' = HeldAfter
    \/ \E fd \in FDs \cup OtherFDs : FlushAllPages(fd) /\ held' = HeldAfter

SpecHeld == Init /\ [][NextHeld]_vars

\* SpecData: callers that keep to the protocol (they unpin only what they
\* hold) and write to the buffers of the pages they hold.
NextData ==
    \/ \E pid \in PageIds : held[pid] <= MaxPin /\ FetchPage(pid) /\ held' = HeldAfter
    \/ \E fd \in FDs : NewPage(fd) /\ held' = HeldAfter
    \/ \E pid \in PageIds, d \in BOOLEAN :
          held[pid] > 0 /\ UnpinPage(pid, d) /\ held' = HeldAfter
    \/ \E pid \in PageIds : FlushPage(pid) /\ held' = HeldAfter
    \/ \E pid \in PageIds, v \in Values : WriteBuffer(pid, v)

SpecData == Init /\ [][NextData]_vars

\* ------------------------------------------------------- record file handle
RmMaxPin == MaxPin + 2
Rids == [page_no : RM_FIRST_RECORD_PAGE .. MaxPageNo + 1, slot_no : Slots]
NoRid == [page_no |-> RM_NO_PAGE, slot_no |-> -1]

\* What a record operation leaves: the pool, the file header, the Rid or the
\* record it returns, and how it ended: "return", the exception it threw, a
\* "segv" on a handle over a null frame or outside the page, or the end of
\* the pool call it was in ("blocked", "throw").
RmOut(bp, hdr, rid, rec, end) ==
    [bp |-> bp, hdr |-> hdr, rid |-> rid, rec |-> rec, end |-> end]

\* Bitmap::first_bit(value, bitmap, n): the first position whose bit is value, or n.
first_bit(value, bitmap, n) ==
    IF \E i \in 0 .. (n - 1) : bitmap[i] = value
    THEN CHOOSE i \in 0 .. (n - 1) :
            bitmap[i] = value /\ \A j \in 0 .. (i - 1) : bitmap[j] # value
    ELSE n

\* A page handle: the frame of the fetched page, or how fetching ended.
fetch_page_handle(bp, hdr, page_no) ==
    IF page_no >= hdr.num_pages
    THEN {[bp |-> bp, frame |-> NoFrame, end |-> "PageNotExistError"]}
    ELSE {[bp |-> o.bp, frame |-> o.frame, end |-> o.end] :
             o \in fetch_page(bp, PageId(fd_, page_no))}

create_new_page_handle(bp, hdr) ==
    { IF o.ret = "frame"
      THEN [bp |-> [o.bp EXCEPT !.pages[o.frame].data_.num_records = 0,
                                !.pages[o.frame].data_.next_free_page_no = RM_NO_PAGE],
            hdr |-> [num_pages |-> hdr.num_pages + 1,
                     first_free_page_no |-> bp.next_page_no[fd_]],
            frame |-> o.frame, end |-> o.end]
      ELSE [bp |-> o.bp, hdr |-> hdr, frame |-> NoFrame, end |-> o.end]
      : o \in new_page(bp, fd_) }

create_page_handle(bp, hdr) ==
    IF hdr.first_free_page_no = RM_NO_PAGE
    THEN create_new_page_handle(bp, hdr)
    ELSE {[bp |-> h.bp, hdr |-> hdr, frame |-> h.frame, end |-> h.end] :
             h \in fetch_page_handle(bp, hdr, hdr.first_free_page_no)}

\* How an operation ends when its handle is no frame: the handle's own end,
\* or a "segv" when the pool returned null and the handle is used.
NoHandleEnd(h) == IF h.end = "return" THEN "segv" ELSE h.end

get_record(bp, hdr, rid) ==
    { IF h.frame = NoFrame
      THEN RmOut(h.bp, hdr, rid, 0, NoHandleEnd(h))
      ELSE IF ~h.bp.pages[h.frame].data_.bitmap[rid.slot_no]
      THEN RmOut(h.bp, hdr, rid, 0, "RecordNotFoundError")
      ELSE RmOut(h.bp, hdr, rid, h.bp.pages[h.frame].data_.slots[rid.slot_no],
                 "return")
      : h \in fetch_page_handle(bp, hdr, rid.page_no) }

\* insert_record(buf) on the page handle h.
insert_record_on(h, buf) ==
    LET d    == h.bp.pages[h.frame].data_
        slot == first_bit(FALSE, d.bitmap, NumRecordsPerPage)
        rid  == [page_no |-> h.bp.pages[h.frame].id.page_no, slot_no |-> slot]
        n    == d.num_records + 1
    IN  IF slot >= NumRecordsPerPage
        THEN \* slot and bit num_records_per_page lie outside the slot array
             \* and the bitmap: a crash, or a write that lands in padding.
             { RmOut(h.bp, h.hdr, rid, buf, "segv"),
               RmOut([h.bp EXCEPT !.pages[h.frame].data_.num_records = n],
                     h.hdr, rid, buf, "return") }
        ELSE { RmOut([h.bp EXCEPT !.pages[h.frame].data_ =
                         [d EXCEPT !.slots[slot] = buf, !.bitmap[slot] = TRUE,
                                   !.num_records = n]],
                     IF n = NumRecordsPerPage
                     THEN [h.hdr EXCEPT !.first_free_page_no = d.next_free_page_no]
                     ELSE h.hdr,
                     rid, buf, "return") }

insert_record(bp, hdr, buf) ==
    UNION { IF h.frame = NoFrame
            THEN {RmOut(h.bp, h.hdr, NoRid, buf, NoHandleEnd(h))}
            ELSE insert_record_on(h, buf)
            : h \in create_page_handle(bp, hdr) }

\* insert_record(rid, buf) from its fetch_page_handle on.
insert_record_at_on(h, hdr, rid, buf) ==
    LET d  == h.bp.pages[h.frame].data_
        n  == d.num_records + 1
        b1 == [h.bp EXCEPT !.pages[h.frame].data_ =
                  [d EXCEPT !.bitmap[rid.slot_no] = TRUE, !.num_records = n,
                            !.slots[rid.slot_no] = buf]]
        h1 == IF n = NumRecordsPerPage
              THEN [hdr EXCEPT !.first_free_page_no = d.next_free_page_no]
              ELSE hdr
    IN  { RmOut(u.bp, h1, rid, buf, u.end) :
             u \in unpin_page(b1, b1.pages[h.frame].id, TRUE) }

insert_record_at(bp, hdr, rid, buf) ==
    LET created == IF rid.page_no < hdr.num_pages
                   THEN create_new_page_handle(bp, hdr)
                   ELSE {[bp |-> bp, hdr |-> hdr, frame |-> NoFrame, end |-> "return"]}
    IN  UNION { IF c.end # "return"
                THEN {RmOut(c.bp, c.hdr, rid, buf, c.end)}
                ELSE UNION { IF h.frame = NoFrame
                             THEN {RmOut(h.bp, c.hdr, rid, buf, NoHandleEnd(h))}
                             ELSE insert_record_at_on(h, c.hdr, rid, buf)
                             : h \in fetch_page_handle(c.bp, c.hdr, rid.page_no) }
                : c \in created }

\* release_page_handle on frame f: the two assignments, in the code's order.
release_page_handle(bp, hdr, f) ==
    LET b1 == [bp EXCEPT !.pages[f].data_.next_free_page_no = hdr.first_free_page_no]
    IN  [bp |-> b1,
         hdr |-> [hdr EXCEPT !.first_free_page_no =
                     b1.pages[f].data_.next_free_page_no]]

delete_record(bp, hdr, rid) ==
    { IF h.frame = NoFrame
      THEN RmOut(h.bp, hdr, rid, 0, NoHandleEnd(h))
      ELSE IF ~h.bp.pages[h.frame].data_.bitmap[rid.slot_no]
      THEN RmOut(h.bp, hdr, rid, 0, "PageNotExistError")
      ELSE LET b1 == [h.bp EXCEPT !.pages[h.frame].data_.bitmap[rid.slot_no] = FALSE]
           IN  IF b1.pages[h.frame].data_.num_records = NumRecordsPerPage
               THEN LET r == release_page_handle(
                               [b1 EXCEPT !.pages[h.frame].data_.num_records = @ - 1],
                               hdr, h.frame)
                    IN  RmOut(r.bp, r.hdr, rid, 0, "return")
               ELSE RmOut(b1, hdr, rid, 0, "return")
      : h \in fetch_page_handle(bp, hdr, rid.page_no) }

update_record(bp, hdr, rid, buf) ==
    { IF h.frame = NoFrame
      THEN RmOut(h.bp, hdr, rid, buf, NoHandleEnd(h))
      ELSE IF ~h.bp.pages[h.frame].data_.bitmap[rid.slot_no]
      THEN RmOut(h.bp, hdr, rid, buf, "PageNotExistError")
      ELSE RmOut([h.bp EXCEPT !.pages[h.frame].data_.slots[rid.slot_no] = buf],
                 hdr, rid, buf, "return")
      : h \in fetch_page_handle(bp, hdr, rid.page_no) }

\* ------------------------------------------------- record file: state, actions
\* The contents of data page p: its frame's buffer while resident.
PageIn(pt, pg, dk, p) ==
    IF PageId(fd_, p) \in DOMAIN pt THEN pg[pt[PageId(fd_, p)]].data_
    ELSE dk[PageId(fd_, p)]

\* A record file just created and opened: the header page only.
InitRm ==
    /\ InitPool(RM_FIRST_RECORD_PAGE)
    /\ file_hdr_ = [num_pages |-> RM_FIRST_RECORD_PAGE, first_free_page_no |-> RM_NO_PAGE]
    /\ last = [op |-> "init", rid |-> NoRid, rec |-> 0, end |-> "return"]

\* The calls the model follows: allocate_page hands out no page number
\* beyond MaxPageNo + 1 (one more data page than the pool has frames, so
\* new_page also fails for want of a frame) and no pin count passes RmMaxPin.
InBounds(o) ==
    /\ o.bp.next_page_no[fd_] <= MaxPageNo + 2
    /\ \A f \in Frames : o.bp.pages[f].pin_count_ <= RmMaxPin

\* The record operation `op` ended as o; after a crash, or with a call
\* blocked on the latch, nothing runs any more.
RmCall(op, o) ==
    /\ InBounds(o)
    /\ SetPool(o.bp)
    /\ file_hdr_' = o.hdr
    /\ Ends(o)
    /\ last' = [op |-> op, rid |-> o.rid, rec |-> o.rec, end |-> o.end]
    /\ UNCHANGED <<held, scan_>>

Running == latch_.owner = NoThread /\ last.end # "segv"

GetRecord(rid) ==
    Running /\ \E o \in get_record(Bp, file_hdr_, rid) : RmCall("get_record", o)

InsertRecord(buf) ==
    Running /\ \E o \in insert_record(Bp, file_hdr_, buf) : RmCall("insert_record", o)

\* The positional insert puts a record back at a Rid that holds none.
InsertRecordAt(rid, buf) ==
    /\ Running
    /\ rid.page_no < file_hdr_.num_pages =>
          ~PageIn(page_table_, pages_, disk, rid.page_no).bitmap[rid.slot_no]
    /\ \E o \in insert_record_at(Bp, file_hdr_, rid, buf) :
          RmCall("insert_record_at", o)

DeleteRecord(rid) ==
    Running /\ \E o \in delete_record(Bp, file_hdr_, rid) : RmCall("delete_record", o)

UpdateRecord(rid, buf) ==
    Running /\ \E o \in update_record(Bp, file_hdr_, rid, buf) :
                  RmCall("update_record", o)

NextRm ==
    \/ \E rid \in Rids : GetRecord(rid)
    \/ \E buf \in Values : InsertRecord(buf)
    \/ \E rid \in Rids, buf \in Values : InsertRecordAt(rid, buf)
    \/ \E rid \in Rids : DeleteRecord(rid)
    \/ \E rid \in Rids, buf \in Values : UpdateRecord(rid, buf)

SpecRm == InitRm /\ [][NextRm]_vars

\* ================================================================= claims
TableFrames == {page_table_[q] : q \in DOMAIN page_table_}
FreeFrames == {free_list_[i] : i \in 1 .. Len(free_list_)}
Reused == last.op \in {"fetch_page", "new_page"} /\ last.ret = "frame"
              /\ last.from \in {"free_list", "replacer"}
PoolVars == <<pages_, page_table_, free_list_, replacer_, disk, next_page_no>>

\* C1 (pool residency): whenever no call is in progress, every PageId of the
\* page table maps to a frame whose id is that PageId, no two entries map to
\* the same frame, and the free list and the frames of the page table are
\* disjoint and together are all the frames of the pool.
C1_PoolResidency ==
    latch_.owner = NoThread =>
        /\ \A q \in DOMAIN page_table_ : pages_[page_table_[q]].id = q
        /\ \A q, r \in DOMAIN page_table_ :
              q # r => page_table_[q] # page_table_[r]
        /\ FreeFrames \cap TableFrames = {}
        /\ FreeFrames \cup TableFrames = Frames

\* C2 (pin accounting): the pin count of every resident frame is the number
\* of callers that hold its page, and a frame that a fetch_page miss or
\* new_page has just returned has pin count 1.
C2_PinAccounting ==
    /\ \A q \in DOMAIN page_table_ : pages_[page_table_[q]].pin_count_ = held[q]
    /\ Reused => pages_[last.frame].pin_count_ = 1

\* C3 (pin safety): a frame that fetch_page or new_page takes from the free
\* list or from the replacer to hold a page had pin count 0 when it was taken.
C3_PinSafety == Reused => last.old.pin_count_ = 0

\* C3 witness: fetch_page or new_page has reused, for another PageId, a frame
\* that held a page before, while another frame of the pool is pinned.
C3_Witness ==
    /\ Reused
    /\ last.old.id.page_no # INVALID_PAGE_ID
    /\ last.old.id # last.pid
    /\ \E f \in Frames : pages_[f].pin_count_ > 0

\* C4 (unpin idempotency): unpin_page(pid, false) returns true when pid is
\* not resident and false when pid is resident with pin count 0, and in both
\* cases changes nothing in the pool or on disk.
C4_UnpinIdempotency ==
    [][ (last'.op = "unpin_page" /\ ~last'.flag) =>
          /\ last'.pid \notin DOMAIN page_table_ =>
                last'.ret = "true" /\ UNCHANGED PoolVars
          /\ (/\ last'.pid \in DOMAIN page_table_
              /\ pages_[page_table_[last'.pid]].pin_count_ = 0) =>
                last'.ret = "false" /\ UNCHANGED PoolVars ]_vars

\* C5 (eviction after the last unpin): with the free list empty, fetch_page
\* of a PageId that is not resident returns null when every frame is pinned,
\* and, right after an unpin_page that brought a frame's pin count from 1 to
\* 0, returns that frame.
C5_EvictionAfterLastUnpin ==
    [][ (/\ last'.op = "fetch_page"
         /\ last'.pid \notin DOMAIN page_table_
         /\ free_list_ = <<>>) =>
          /\ (\A f \in Frames : pages_[f].pin_count_ > 0) => last'.ret = "null"
          /\ (/\ last.op = "unpin_page"
              /\ last.ret = "true"
              /\ last.old.pin_count_ = 1) =>
                last'.ret = "frame" /\ last'.frame = last.frame ]_vars

\* C6 (dirty write-back before reuse): when fetch_page or new_page has reused
\* a dirty frame for another PageId, the disk holds, under the frame's old
\* PageId, the contents the frame had.
C6_DirtyWriteBack ==
    (Reused /\ last.old.is_dirty_ /\ last.old.id # last.pid) =>
        disk[last.old.id] = last.old.data_

\* C7 (termination): every call returns a frame, null, true or false (or
\* nothing, for flush_all_pages) and releases the latch; no call is blocked
\* on the latch it holds itself.
C7_EveryCallReturns ==
    /\ latch_.owner = NoThread
    /\ last.ret \in {"frame", "null", "true", "false", "void"}

DataPages == RM_FIRST_RECORD_PAGE .. (file_hdr_.num_pages - 1)

RmPage(p) == PageIn(page_table_, pages_, disk, p)
RmPageAfter(p) == PageIn(page_table_', pages_', disk', p)

PopCount(bitmap) == Cardinality({s \in Slots : bitmap[s]})
HasFreeSlot(p) == RmPage(p).num_records < NumRecordsPerPage
Alive == latch_.owner = NoThread /\ last.end \notin {"segv", "blocked"}

\* The pages met from page p on along next_free_page_no, at most k of them,
\* and the page number at which that walk stops.
RECURSIVE Chain(_, _)
Chain(p, k) ==
    IF k = 0 \/ p \notin DataPages THEN <<>>
    ELSE <<p>> \o Chain(RmPage(p).next_free_page_no, k - 1)

RECURSIVE ChainEnd(_, _)
ChainEnd(p, k) ==
    IF k = 0 \/ p \notin DataPages THEN p
    ELSE ChainEnd(RmPage(p).next_free_page_no, k - 1)

\* C8 (bitmap accounting): after any sequence of record operations, on every
\* data page the number of set bits of the bitmap is num_records.
C8_BitmapAccounting ==
    Alive => \A p \in DataPages : PopCount(RmPage(p).bitmap) = RmPage(p).num_records

\* C9 (free chain): the walk from first_free_page_no along next_free_page_no
\* ends at RM_NO_PAGE, meets no page twice and meets exactly the data pages
\* that have a free slot; so first_free_page_no is RM_NO_PAGE exactly when no
\* data page has a free slot.
C9_FreeChainSound ==
    Alive =>
        LET w == Chain(file_hdr_.first_free_page_no, file_hdr_.num_pages)
        IN  /\ ChainEnd(file_hdr_.first_free_page_no, file_hdr_.num_pages) = RM_NO_PAGE
            /\ \A i, j \in 1 .. Len(w) : i # j => w[i] # w[j]
            /\ {w[i] : i \in 1 .. Len(w)} = {p \in DataPages : HasFreeSlot(p)}
            /\ (file_hdr_.first_free_page_no = RM_NO_PAGE) <=>
                  ~ \E p \in DataPages : HasFreeSlot(p)

\* C10 (delete from a full page): a delete_record(rid) that removes a record
\* from a full page leaves first_free_page_no = rid.page_no, the page's
\* next_free_page_no at the former first_free_page_no and its num_records one
\* less; and an insert_record(buf) that follows it returns that rid.
C10_DeleteFromFullPage ==
    [][ /\ (/\ last'.op = "delete_record" /\ last'.end = "return"
            /\ last'.rid.page_no \in DataPages
            /\ RmPage(last'.rid.page_no).bitmap[last'.rid.slot_no]
            /\ RmPage(last'.rid.page_no).num_records = NumRecordsPerPage) =>
              /\ file_hdr_'.first_free_page_no = last'.rid.page_no
              /\ RmPageAfter(last'.rid.page_no).next_free_page_no =
                    file_hdr_.first_free_page_no
              /\ RmPageAfter(last'.rid.page_no).num_records = NumRecordsPerPage - 1
        /\ (/\ last.op = "delete_record" /\ last.end = "return"
            /\ file_hdr_.first_free_page_no = last.rid.page_no
            /\ RmPage(last.rid.page_no).num_records = NumRecordsPerPage - 1
            /\ last'.op = "insert_record" /\ last'.end = "return") =>
              last'.rid = last.rid ]_vars

\* Rid r holds a record before / after the step.
Occupied(r) ==
    r.page_no \in DataPages /\ RmPage(r.page_no).bitmap[r.slot_no]
OccupiedAfter(r) ==
    /\ r.page_no >= RM_FIRST_RECORD_PAGE
    /\ r.page_no < file_hdr_'.num_pages
    /\ RmPageAfter(r.page_no).bitmap[r.slot_no]
Mutators == {"insert_record", "insert_record_at", "delete_record", "update_record"}

\* C11 (record round trip): insert_record(buf) returns a Rid of the file that
\* then holds buf; a record stays at its Rid, with its contents, across every
\* operation that is not an insert, update or delete at that Rid; and
\* get_record of a Rid that holds a record returns that record.
C11_RecordRoundTrip ==
    [][ /\ (last'.op = "insert_record" /\ last'.end = "return") =>
              /\ last'.rid \in Rids
              /\ OccupiedAfter(last'.rid)
              /\ RmPageAfter(last'.rid.page_no).slots[last'.rid.slot_no] = last'.rec
        /\ \A r \in Rids :
              (Occupied(r) /\ ~(last'.op \in Mutators /\ last'.rid = r)) =>
                  /\ OccupiedAfter(r)
                  /\ RmPageAfter(r.page_no).slots[r.slot_no] =
                        RmPage(r.page_no).slots[r.slot_no]
                  /\ (last'.op = "get_record" /\ last'.rid = r) =>
                        /\ last'.end = "return"
                        /\ last'.rec = RmPage(r.page_no).slots[r.slot_no] ]_vars

\* -------------------------------------------------------------- record scan
\* Bitmap::next_bit(value, bitmap, n, curr): the first position after curr
\* whose bit is value, or n.
next_bit(value, bitmap, n, curr) ==
    IF \E i \in (curr + 1) .. (n - 1) : bitmap[i] = value
    THEN CHOOSE i \in (curr + 1) .. (n - 1) :
            bitmap[i] = value /\ \A j \in (curr + 1) .. (i - 1) : bitmap[j] # value
    ELSE n

ScanOut(bp, rid, end) == [bp |-> bp, rid |-> rid, end |-> end]

\* RmScan::next from rid_ = rid: the while loop, one page per iteration.
RECURSIVE scan_next(_, _, _)
scan_next(bp, hdr, rid) ==
    IF ~(rid.page_no < hdr.num_pages)
    THEN {ScanOut(bp, rid, "return")}
    ELSE UNION {
           IF h.frame = NoFrame
           THEN {ScanOut(h.bp, rid, NoHandleEnd(h))}
           ELSE LET slot == next_bit(TRUE, h.bp.pages[h.frame].data_.bitmap,
                                     NumRecordsPerPage, rid.slot_no)
                IN  IF slot < NumRecordsPerPage
                    THEN {ScanOut(h.bp, [rid EXCEPT !.slot_no = slot], "return")}
                    ELSE IF rid.page_no + 1 >= hdr.num_pages
                    THEN {ScanOut(h.bp, NoRid, "return")}
                    ELSE scan_next(h.bp, hdr,
                                   [page_no |-> rid.page_no + 1, slot_no |-> -1])
           : h \in fetch_page_handle(bp, hdr, rid.page_no) }

is_end == scan_.rid_.page_no = RM_NO_PAGE

\* The pins a scan adds to those the record operations left, and the Rids a
\* client reads from one scan.
ScanMaxPin == RmMaxPin + NumRecordsPerPage + 1
MaxSeen == Cardinality(Rids)

\* The constructor or next() has left the scan as o; the client reads rid()
\* when the scan is not at its end.
Scanned(op, o, seen) ==
    /\ \A f \in Frames : o.bp.pages[f].pin_count_ <= ScanMaxPin
    /\ SetPool(o.bp)
    /\ Ends(o)
    /\ scan_' = [open |-> TRUE, rid_ |-> o.rid,
                 seen |-> IF o.end = "return" /\ o.rid.page_no # RM_NO_PAGE
                          THEN Append(seen, o.rid) ELSE seen]
    /\ last' = [op |-> op, rid |-> o.rid, rec |-> 0, end |-> o.end]
    /\ UNCHANGED <<held, file_hdr_>>

\* RmScan::RmScan(file_handle).
ScanOpen ==
    /\ Running
    /\ ~scan_.open
    /\ \E o \in scan_next(Bp, file_hdr_,
                          [page_no |-> RM_FIRST_RECORD_PAGE, slot_no |-> -1]) :
          Scanned("RmScan", o, <<>>)

\* RmScan::next(), called while the scan is not at its end.
ScanNext ==
    /\ Running
    /\ scan_.open
    /\ ~is_end
    /\ Len(scan_.seen) < MaxSeen
    /\ \E o \in scan_next(Bp, file_hdr_, scan_.rid_) : Scanned("next", o, scan_.seen)

\* SpecScan: record operations build the file, then one scan runs over it.
NextScan ==
    \/ ~scan_.open /\ \E rid \in Rids : GetRecord(rid)
    \/ ~scan_.open /\ \E buf \in Values : InsertRecord(buf)
    \/ ~scan_.open /\ \E rid \in Rids, buf \in Values : InsertRecordAt(rid, buf)
    \/ ~scan_.open /\ \E rid \in Rids : DeleteRecord(rid)
    \/ ~scan_.open /\ \E rid \in Rids, buf \in Values : UpdateRecord(rid, buf)
    \/ ScanOpen
    \/ ScanNext

SpecScan == InitRm /\ [][NextScan]_vars

\* The Rids that hold a record, and the order of a scan.
OccupiedRids == {r \in Rids : Occupied(r)}
RidBefore(a, b) ==
    a.page_no < b.page_no \/ (a.page_no = b.page_no /\ a.slot_no < b.slot_no)
SeenRids == {scan_.seen[i] : i \in 1 .. Len(scan_.seen)}

\* C12 (scan coverage): every Rid a scan yields holds a record, the Rids come
\* in strictly ascending (page_no, slot_no) order, hence each once, and when
\* the scan is at its end it has yielded every Rid that holds a record.
C12_ScanCoverage ==
    (scan_.open /\ Alive) =>
        /\ \A i \in 1 .. Len(scan_.seen) :
              scan_.seen[i] \in Rids /\ Occupied(scan_.seen[i])
        /\ \A i, j \in 1 .. Len(scan_.seen) :
              i < j => RidBefore(scan_.seen[i], scan_.seen[j])
        /\ is_end => SeenRids = OccupiedRids

\* C17 (empty scan): an RmScan constructed over a file in which no slot is
\* occupied has rid (RM_NO_PAGE, -1), so is_end() is true at once.
C17_EmptyScanIsAtEnd ==
    (last.op = "RmScan" /\ last.end = "return" /\ OccupiedRids = {}) =>
        scan_.rid_ = NoRid /\ is_end

\* The pin count of page q: that of its frame while it is resident.
PinOf(pt, pg, q) == IF q \in DOMAIN pt THEN pg[pt[q]].pin_count_ ELSE 0
Returned == {"return", "RecordNotFoundError", "PageNotExistError"}
RmVars == <<pages_, page_table_, free_list_, replacer_, disk, file_hdr_>>

\* C13 (record-layer pin discipline): every record operation and every scan
\* step that returns or throws leaves the pin count of every page as it was,
\* and a mutating operation that returns leaves the page of its Rid dirty.
C13_RecordPinDiscipline ==
    [][ /\ last'.end \in Returned =>
              \A q \in PageIds : PinOf(page_table_', pages_', q) =
                                    PinOf(page_table_, pages_, q)
        /\ (/\ last'.op \in Mutators /\ last'.end = "return"
            /\ PageId(fd_, last'.rid.page_no) \in DOMAIN page_table_') =>
              pages_'[page_table_'[PageId(fd_, last'.rid.page_no)]].is_dirty_ ]_vars

\* C14 (failed reads change nothing): get_record fails with RecordNotFound on
\* a Rid whose bit is clear and with PageNotExists on a page_no >= num_pages,
\* and leaves the pool (page table, free list, frames) and the file as they were.
C14_FailedReadChangesNothing ==
    [][ last'.op = "get_record" =>
          /\ (last'.rid.page_no \in DataPages /\ ~Occupied(last'.rid)) =>
                last'.end = "RecordNotFoundError" /\ UNCHANGED RmVars
          /\ last'.rid.page_no >= file_hdr_.num_pages =>
                last'.end = "PageNotExistError" /\ UNCHANGED RmVars ]_vars

\* C15 (positional insert grows the file): insert_record(rid, buf) with
\* rid.page_no >= num_pages returns with num_pages = rid.page_no + 1 and buf
\* stored at rid; with rid.page_no < num_pages it allocates no page number
\* and leaves num_pages as it was.
C15_PositionalInsertGrows ==
    [][ last'.op = "insert_record_at" =>
          /\ last'.rid.page_no >= file_hdr_.num_pages =>
                /\ last'.end = "return"
                /\ file_hdr_'.num_pages = last'.rid.page_no + 1
                /\ OccupiedAfter(last'.rid)
                /\ RmPageAfter(last'.rid.page_no).slots[last'.rid.slot_no] = last'.rec
          /\ last'.rid.page_no < file_hdr_.num_pages =>
                /\ file_hdr_'.num_pages = file_hdr_.num_pages
                /\ next_page_no' = next_page_no ]_vars

\* C16 (delete and update of an absent record): delete_record and
\* update_record on a Rid of an existing page whose bit is clear fail with
\* RecordNotFound and leave the page's contents and first_free_page_no as
\* they were.
C16_AbsentRecordFailsCleanly ==
    [][ (/\ last'.op \in {"delete_record", "update_record"}
         /\ last'.rid.page_no \in DataPages
         /\ ~Occupied(last'.rid)) =>
          /\ last'.end = "RecordNotFoundError"
          /\ RmPageAfter(last'.rid.page_no) = RmPage(last'.rid.page_no)
          /\ file_hdr_' = file_hdr_ ]_vars

\* C18 (sticky dirty bit): the dirty flag of a resident frame goes from true
\* to false only in a step after which the disk holds the frame's buffer
\* under the frame's PageId; unpin_page(pid, false) clears no dirty flag; and
\* a frame that new_page or a fetch_page miss has just returned is not dirty.
C18_StickyDirty ==
    [][ /\ \A f \in TableFrames :
              (pages_[f].is_dirty_ /\ ~pages_'[f].is_dirty_) =>
                  disk'[pages_[f].id] = pages_[f].data_
        /\ (last'.op = "unpin_page" /\ ~last'.flag) =>
              \A f \in Frames : pages_[f].is_dirty_ => pages_'[f].is_dirty_
        /\ (/\ last'.op \in {"fetch_page", "new_page"}
            /\ last'.ret = "frame"
            /\ last'.from \in {"free_list", "replacer"}) =>
              ~pages_'[last'.frame].is_dirty_ ]_vars

\* C19 (no page-number leak): a new_page that returns null for want of a
\* frame has passed the page number it allocated to deallocate_page, and
\* leaves the page table, the free list and the frames as they were.
C19_NewPageFailureDeallocates ==
    [][ (last'.op = "new_page" /\ last'.ret = "null") =>
          /\ last'.pid.page_no \in last'.deallocated
          /\ UNCHANGED <<pages_, page_table_, free_list_>> ]_vars

\* C20 (a held page stays resident): no call removes or moves the page-table
\* entry of a PageId whose frame has pin count > 0.
C20_HeldPageStaysResident ==
    [][ \A q \in DOMAIN page_table_ :
          pages_[page_table_[q]].pin_count_ > 0 =>
              /\ q \in DOMAIN page_table_'
              /\ page_table_'[q] = page_table_[q] ]_vars

====
